---------------------------- MODULE Spec2Model ----------------------------
(***************************************************************************)
(* Face-comparison core of cn814/facecompare: the similarity scorer        *)
(* (computeSimilarity), and the multi-reference aggregator                 *)
(* (computeMultiReferenceSimilarity), as written in comparison.js.         *)
(*                                                                         *)
(* JavaScript Numbers are modelled as exact rationals [num, den] kept in   *)
(* lowest terms, so that 12.5, 0.4 + 0.1 and sum / length are computed     *)
(* as written and equal values are equal records.  IEEE-754 rounding is    *)
(* not modelled.                                                           *)
(***************************************************************************)
EXTENDS Integers, Sequences, FiniteSets

VARIABLES
    fn,        \* the function of the most recent call ("none" before any)
    args,      \* the arguments of that call, as the caller passed them
    outcome,   \* how the call ended: a returned value or a thrown Error
    callerData,\* the caller's arrays as the call left them, and which arrays
               \* the call allocated and which the returned value refers to
    \* the page (main.js)
    referencePhotos,    \* let referencePhotos
    comparisons,        \* let comparisons
    comparisonResults,  \* let comparisonResults
    compareBtnDisabled, \* compareBtn.disabled
    referenceUploads,   \* the handleReferencePhotos calls waiting at an await
    comparisonUploads,  \* the handleComparisons and processSelectedUrlImages
                        \* calls waiting at an await
    orphanButtons,      \* the indices held by the remove buttons in preview1
                        \* of photos that were not stored
    resultsShown,       \* resultsDiv holds the results and export buttons of
                        \* the last run that scored
    zipExports          \* the exportMatchingPhotosToZip calls waiting at an
                        \* await

callVars == <<fn, args, outcome, callerData>>
pageVars == <<referencePhotos, comparisons, comparisonResults, compareBtnDisabled,
              referenceUploads, comparisonUploads, orphanButtons, resultsShown,
              zipExports>>
vars == <<fn, args, outcome, callerData,
          referencePhotos, comparisons, comparisonResults, compareBtnDisabled,
          referenceUploads, comparisonUploads, orphanButtons, resultsShown,
          zipExports>>

----------------------------------------------------------------------------
(* Bounds of the explored inputs.                                          *)

\* distances handed to computeSimilarity are k/100 for
\* k \in -MaxNegDistance .. MaxDistance
MaxDistance == 150
MaxNegDistance == 20
\* longest refDescriptors list
MaxRefs == 4
\* most images in a comparison set, and most faces in all its images
MaxImages == 2
MaxFaces == 3
\* the page: most files dropped at once, most calls of a handler waiting
\* at an await, most reference files stored or under way
MaxDrop == 2
MaxCalls == 1
MaxReferenceFiles == 2
\* the reference panel: most reference files stored or under way
MaxPanelFiles == 6
MaxPanelCalls == 2

----------------------------------------------------------------------------
(* Numbers.                                                                *)

Abs(n) == IF n < 0 THEN -n ELSE n

RECURSIVE GCD(_, _)
GCD(a, b) == IF b = 0 THEN a ELSE GCD(b, a % b)

\* the Number n / d (d > 0), in lowest terms
Frac(n, d) ==
    LET g == GCD(Abs(n), d)
    IN  [num |-> n \div g, den |-> d \div g]

Num(n) == [num |-> n, den |-> 1]

RAdd(a, b) == Frac(a.num * b.den + b.num * a.den, a.den * b.den)
RSub(a, b) == Frac(a.num * b.den - b.num * a.den, a.den * b.den)
RMul(a, b) == Frac(a.num * b.num, a.den * b.den)
\* a / n for a positive integer n (a length)
RDivInt(a, n) == Frac(a.num, a.den * n)
RLt(a, b) == a.num * b.den < b.num * a.den
RLe(a, b) == a.num * b.den <= b.num * a.den
\* Math.max, Math.min
RMax(a, b) == IF RLt(a, b) THEN b ELSE a
RMin(a, b) == IF RLt(b, a) THEN b ELSE a
RAbs(a) == [num |-> Abs(a.num), den |-> a.den]

----------------------------------------------------------------------------
(* config.js                                                               *)

CONFIG ==
    [similarity |->
        [thresholds |->
            [veryHigh |-> Frac(4, 10),
             high     |-> Frac(5, 10),
             good     |-> Frac(6, 10),
             low      |-> Frac(7, 10)],
         sunglassesAdjustment |-> Frac(1, 10),
         multiReferenceMethod |-> "average"]]

----------------------------------------------------------------------------
(* comparison.js: computeSimilarity                                        *)

\* Variants of the if / else-if chain, each with one slip:
\*   inclusive  the tests use <= instead of <
\*   shifted    FALSE: the formulas use the unadjusted boundary
\*   slopes     the four coefficients (12.5, 100, 150, 200 in the source)
bandChainVariant(distance, adjust, t, inclusive, shifted, slopes) ==
    LET below(bound) == IF inclusive THEN RLe(distance, RAdd(bound, adjust))
                                     ELSE RLt(distance, RAdd(bound, adjust))
        edge(bound)  == IF shifted THEN RAdd(bound, adjust) ELSE bound
    IN  IF below(t.veryHigh) THEN
            [similarity |-> RAdd(Num(95), RMul(RSub(edge(t.veryHigh), distance), slopes[1])),
             confidence |-> "Very High", isMatch |-> TRUE]
        ELSE IF below(t.high) THEN
            [similarity |-> RAdd(Num(85), RMul(RSub(edge(t.high), distance), slopes[2])),
             confidence |-> "High", isMatch |-> TRUE]
        ELSE IF below(t.good) THEN
            [similarity |-> RAdd(Num(70), RMul(RSub(edge(t.good), distance), slopes[3])),
             confidence |-> "Good", isMatch |-> TRUE]
        ELSE IF below(t.low) THEN
            [similarity |-> RAdd(Num(50), RMul(RSub(edge(t.low), distance), slopes[4])),
             confidence |-> "Low", isMatch |-> FALSE]
        ELSE
            [similarity |-> RMax(Num(0), RSub(Num(50),
                                RMul(RSub(distance, edge(t.low)), Num(100)))),
             confidence |-> "Very Low", isMatch |-> FALSE]

SourceSlopes == <<Frac(125, 10), Num(100), Num(150), Num(200)>>

\* 12.5 written as 1.25 in the first band
selectBand_slope(distance, adjust, t) ==
    bandChainVariant(distance, adjust, t, FALSE, TRUE,
                     <<Frac(125, 100), Num(100), Num(150), Num(200)>>)

\* the third band with the second band's coefficient: a jump at high + adjust
selectBand_jump(distance, adjust, t) ==
    bandChainVariant(distance, adjust, t, FALSE, TRUE,
                     <<Frac(125, 10), Num(100), Num(100), Num(200)>>)

\* <= in the tests
selectBand_inclusive(distance, adjust, t) ==
    bandChainVariant(distance, adjust, t, TRUE, TRUE, SourceSlopes)

\* the adjustment moves the tests but not the formulas
selectBand_noShift(distance, adjust, t) ==
    bandChainVariant(distance, adjust, t, FALSE, FALSE, SourceSlopes)

\* isMatch: true in the 'Low' band as well
selectBand_lowMatches(distance, adjust, t) ==
    LET band == bandChainVariant(distance, adjust, t, FALSE, TRUE, SourceSlopes)
    IN  IF band.confidence = "Low" THEN [band EXCEPT !.isMatch = TRUE] ELSE band

\* the branch taken by the if / else-if chain, before the final clamp
selectBand(distance, adjust, t) ==
    IF RLt(distance, RAdd(t.veryHigh, adjust)) THEN
        [similarity |-> RAdd(Num(95),
            RMul(RSub(RAdd(t.veryHigh, adjust), distance), Frac(125, 10))),
         confidence |-> "Very High", isMatch |-> TRUE]
    ELSE IF RLt(distance, RAdd(t.high, adjust)) THEN
        [similarity |-> RAdd(Num(85),
            RMul(RSub(RAdd(t.high, adjust), distance), Num(100))),
         confidence |-> "High", isMatch |-> TRUE]
    ELSE IF RLt(distance, RAdd(t.good, adjust)) THEN
        [similarity |-> RAdd(Num(70),
            RMul(RSub(RAdd(t.good, adjust), distance), Num(150))),
         confidence |-> "Good", isMatch |-> TRUE]
    ELSE IF RLt(distance, RAdd(t.low, adjust)) THEN
        [similarity |-> RAdd(Num(50),
            RMul(RSub(RAdd(t.low, adjust), distance), Num(200))),
         confidence |-> "Low", isMatch |-> FALSE]
    ELSE
        [similarity |-> RMax(Num(0), RSub(Num(50),
            RMul(RSub(distance, RAdd(t.low, adjust)), Num(100)))),
         confidence |-> "Very Low", isMatch |-> FALSE]

\* the clamp without its Math.min
clampSimilarity_noUpper(similarity) == RMax(Num(0), similarity)

\* similarity = Math.min(100, Math.max(0, similarity))
clampSimilarity(similarity) == RMin(Num(100), RMax(Num(0), similarity))

computeSimilarity(distance, anySunglasses) ==
    LET adjust == IF anySunglasses THEN CONFIG.similarity.sunglassesAdjustment
                                   ELSE Num(0)
        t      == CONFIG.similarity.thresholds
        band   == selectBand(distance, adjust, t)
    IN  [similarity |-> clampSimilarity(band.similarity),
         confidence |-> band.confidence,
         isMatch    |-> band.isMatch]

\* the second definition of computeSimilarity in js/comparison.js, with the
\* thresholds and the adjustment written as literals
computeSimilarity_2(distance, anySunglasses) ==
    LET adjust == IF anySunglasses THEN Frac(1, 10) ELSE Num(0)
        band ==
            IF RLt(distance, RAdd(Frac(4, 10), adjust)) THEN
                [similarity |-> RAdd(Num(95),
                    RMul(RSub(RAdd(Frac(4, 10), adjust), distance), Frac(125, 10))),
                 confidence |-> "Very High", isMatch |-> TRUE]
            ELSE IF RLt(distance, RAdd(Frac(5, 10), adjust)) THEN
                [similarity |-> RAdd(Num(85),
                    RMul(RSub(RAdd(Frac(5, 10), adjust), distance), Num(100))),
                 confidence |-> "High", isMatch |-> TRUE]
            ELSE IF RLt(distance, RAdd(Frac(6, 10), adjust)) THEN
                [similarity |-> RAdd(Num(70),
                    RMul(RSub(RAdd(Frac(6, 10), adjust), distance), Num(150))),
                 confidence |-> "Good", isMatch |-> TRUE]
            ELSE IF RLt(distance, RAdd(Frac(7, 10), adjust)) THEN
                [similarity |-> RAdd(Num(50),
                    RMul(RSub(RAdd(Frac(7, 10), adjust), distance), Num(200))),
                 confidence |-> "Low", isMatch |-> FALSE]
            ELSE
                [similarity |-> RMax(Num(0), RSub(Num(50),
                    RMul(RSub(distance, RAdd(Frac(7, 10), adjust)), Num(100)))),
                 confidence |-> "Low", isMatch |-> FALSE]
    IN  [similarity |-> RMin(Num(100), RMax(Num(0), band.similarity)),
         confidence |-> band.confidence,
         isMatch    |-> band.isMatch]

----------------------------------------------------------------------------
(* The external descriptor distance.  A descriptor is a sequence of        *)
(* Numbers; the model explores descriptors of length 1, for which the      *)
(* Euclidean norm of the difference is the absolute difference.            *)

euclideanDistance(a, b) == RAbs(RSub(a[1], b[1]))

----------------------------------------------------------------------------
(* comparison.js: computeMultiReferenceSimilarity                          *)

NoValue == [none |-> TRUE]
Returned(v) == [threw |-> FALSE, message |-> "", value |-> v]
Threw(msg)  == [threw |-> TRUE, message |-> msg, value |-> NoValue]

\* an argument the caller left out: the parameter takes its default
Undefined == "<undefined>"

\* Math.min(...distances)
RECURSIVE MathMin(_)
MathMin(s) ==
    IF Len(s) = 1 THEN s[1] ELSE RMin(s[1], MathMin(Tail(s)))

\* distances.reduce((sum, d) => sum + d, 0)
RECURSIVE ReduceSum(_)
ReduceSum(s) ==
    IF s = <<>> THEN Num(0) ELSE RAdd(ReduceSum(SubSeq(s, 1, Len(s) - 1)), s[Len(s)])

\* [...distances].sort((a, b) => a - b): a sorted copy, the argument is kept
RECURSIVE InsertAsc(_, _)
InsertAsc(x, s) ==
    IF s = <<>> THEN <<x>>
    ELSE IF RLt(x, s[1]) THEN <<x>> \o s
    ELSE <<s[1]>> \o InsertAsc(x, Tail(s))

RECURSIVE SortAsc(_)
SortAsc(s) ==
    IF s = <<>> THEN <<>>
    ELSE InsertAsc(s[Len(s)], SortAsc(SubSeq(s, 1, Len(s) - 1)))

\* case 'median' without the sort: the middle of distances as passed
medianOf_unsorted(distances) ==
    LET mid == Len(distances) \div 2
    IN  IF Len(distances) % 2 = 0
        THEN RDivInt(RAdd(distances[mid], distances[mid + 1]), 2)
        ELSE distances[mid + 1]

\* case 'median': the middle of a sorted copy, or the mean of its two middles
medianOf(distances) ==
    LET sorted == SortAsc(distances)
        mid    == Len(sorted) \div 2      \* Math.floor(sorted.length / 2), 0-based
    IN  IF Len(sorted) % 2 = 0
        THEN RDivInt(RAdd(sorted[mid], sorted[mid + 1]), 2)
        ELSE sorted[mid + 1]

\* case 'average' without the division by the length
meanOf_sumOnly(distances) == ReduceSum(distances)

\* case 'average': distances.reduce(...) / distances.length
meanOf(distances) == RDivInt(ReduceSum(distances), Len(distances))

\* the switch with its default label on case 'best'
reduceDistances_defaultBest(distances, method) ==
    CASE method = "average" -> meanOf(distances)
      [] method = "median" -> medianOf(distances)
      [] OTHER -> MathMin(distances)

RECURSIVE MathMax(_)
MathMax(s) ==
    IF Len(s) = 1 THEN s[1] ELSE RMax(s[1], MathMax(Tail(s)))

\* case 'best' with Math.max for Math.min
reduceDistances_bestIsMax(distances, method) ==
    CASE method = "best" -> MathMax(distances)
      [] method = "median" -> medianOf(distances)
      [] OTHER -> meanOf(distances)

\* case 'best' folding Math.min from 0 instead of spreading the distances
reduceDistances_bestFromZero(distances, method) ==
    CASE method = "best" -> RMin(Num(0), MathMin(distances))
      [] method = "median" -> medianOf(distances)
      [] OTHER -> meanOf(distances)

\* the switch (method) statement
reduceDistances(distances, method) ==
    CASE method = "best" -> MathMin(distances)
      [] method = "median" -> medianOf(distances)
      [] OTHER -> meanOf(distances)

\* refDescriptors.map(refDesc => faceapi.euclideanDistance(refDesc, compareDescriptor))
pairwiseDistances(refDescriptors, compareDescriptor) ==
    [i \in 1 .. Len(refDescriptors) |->
        euclideanDistance(refDescriptors[i], compareDescriptor)]

\* the returned object literal
resultRecord(result, distances, finalDistance, method, referenceCount) ==
    [similarity     |-> result.similarity,
     confidence     |-> result.confidence,
     isMatch        |-> result.isMatch,
     distances      |-> distances,
     finalDistance  |-> finalDistance,
     method         |-> method,
     referenceCount |-> referenceCount]

\* case 'median' sorting distances itself instead of a copy
multiReferenceResult_sortInPlace(refDescriptors, compareDescriptor, anySunglasses, method) ==
    LET distances     == pairwiseDistances(refDescriptors, compareDescriptor)
        finalDistance == reduceDistances(distances, method)
        result        == computeSimilarity(finalDistance, anySunglasses)
    IN  resultRecord(result,
                     IF method = "median" THEN SortAsc(distances) ELSE distances,
                     finalDistance, method, Len(refDescriptors))

\* the scorer called without the sunglasses flag
multiReferenceResult_dropsFlag(refDescriptors, compareDescriptor, anySunglasses, method) ==
    LET distances     == pairwiseDistances(refDescriptors, compareDescriptor)
        finalDistance == reduceDistances(distances, method)
        result        == computeSimilarity(finalDistance, FALSE)
    IN  resultRecord(result, distances, finalDistance, method, Len(refDescriptors))

\* the body after the guard
multiReferenceResult(refDescriptors, compareDescriptor, anySunglasses, method) ==
    LET distances     == pairwiseDistances(refDescriptors, compareDescriptor)
        finalDistance == reduceDistances(distances, method)
        result        == computeSimilarity(finalDistance, anySunglasses)
    IN  resultRecord(result, distances, finalDistance, method, Len(refDescriptors))

\* the guard returning null instead of throwing
computeMultiReferenceSimilarity_returnsNull(refDescriptors, compareDescriptor, anySunglasses, methodArg) ==
    LET method == IF methodArg = Undefined THEN "average" ELSE methodArg
    IN  IF Len(refDescriptors) = 0
        THEN Returned(NoValue)
        ELSE Returned(multiReferenceResult(refDescriptors, compareDescriptor,
                                           anySunglasses, method))

\* a default: label that throws instead of averaging
computeMultiReferenceSimilarity_rejectsUnknown(refDescriptors, compareDescriptor, anySunglasses, methodArg) ==
    LET method == IF methodArg = Undefined THEN "average" ELSE methodArg
    IN  IF Len(refDescriptors) = 0
        THEN Threw("No reference descriptors provided")
        ELSE IF method \notin {"best", "average", "median"}
        THEN Threw("Unknown method")
        ELSE Returned(multiReferenceResult(refDescriptors, compareDescriptor,
                                           anySunglasses, method))

computeMultiReferenceSimilarity(refDescriptors, compareDescriptor, anySunglasses, methodArg) ==
    LET method == IF methodArg = Undefined THEN "average" ELSE methodArg
    IN  IF Len(refDescriptors) = 0
        THEN Threw("No reference descriptors provided")
        ELSE Returned(multiReferenceResult(refDescriptors, compareDescriptor,
                                           anySunglasses, method))

----------------------------------------------------------------------------
(* The arrays a call touches.  Every array has a name; after holds the     *)
(* caller's arrays as the call leaves them, allocated the arrays the call  *)
(* creates (map, spread, literal), returned the arrays the returned value  *)
(* refers to.  A statement that writes an array (sort, push) writes the    *)
(* array it is called on.                                                  *)

ArrayEffect(after, allocated, returned) ==
    [after |-> after, allocated |-> allocated, returned |-> returned]

\* calls of the scorer pass and return no array
NoArrays == ArrayEffect(NoValue, {}, {})

\* refDescriptors.sort(...).map(...): the sort orders the caller's array
computeMultiReferenceSimilarity_arrays_sortsArgument(refDescriptors, compareDescriptor, method) ==
    ArrayEffect([refDescriptors    |-> IF method = "median"
                                        THEN [i \in 1 .. Len(refDescriptors) |->
                                                 <<SortAsc([j \in 1 .. Len(refDescriptors) |->
                                                               refDescriptors[j][1]])[i]>>]
                                        ELSE refDescriptors,
                 compareDescriptor |-> compareDescriptor],
                IF method = "median" THEN {"distances", "sorted"} ELSE {"distances"},
                {"distances"})

\* computeMultiReferenceSimilarity: refDescriptors is read by length and
\* map, which builds distances; case 'median' spreads distances into the
\* new array sorted and sorts that; the result holds distances
computeMultiReferenceSimilarity_arrays(refDescriptors, compareDescriptor, method) ==
    ArrayEffect([refDescriptors    |-> refDescriptors,
                 compareDescriptor |-> compareDescriptor],
                IF Len(refDescriptors) = 0 THEN {}
                ELSE IF method = "median" THEN {"distances", "sorted"}
                ELSE {"distances"},
                IF Len(refDescriptors) = 0 THEN {} ELSE {"distances"})

\* computeAllSimilarities: comparisons and each comp.faces are walked by
\* forEach; push and sort write results, the array the call creates and
\* returns; its records hold strings, numbers and booleans
computeAllSimilarities_arrays(refDescriptor, comparisonSet) ==
    ArrayEffect([refDescriptor |-> refDescriptor, comparisons |-> comparisonSet],
                {"results"}, {"results"})

----------------------------------------------------------------------------
(* The ranking step: computeAllSimilarities (comparison.js) and            *)
(* performComparison (main.js).                                            *)
(*                                                                         *)
(* A comparison is [file |-> [name], faces |-> sequence of faces]; a face  *)
(* is [descriptor, hasSunglasses, age, refAge, quality] and a reference    *)
(* face has selected as well.  Properties that may hold a number or be     *)
(* missing are tagged values.  Indices are 0-based as in the source.       *)

JSNumber(n) == [type |-> "number", value |-> n]
JSUndefined == [type |-> "undefined", value |-> 0]
JSNull      == [type |-> "null", value |-> 0]

\* typeof face.age === 'number' ? face.age : null
numberOrNull(v) == IF v.type = "number" THEN v ELSE JSNull

\* comparisons.forEach((comp, imgIndex) => comp.faces.forEach((face, faceIndex) => ...)):
\* the <<imgIndex, faceIndex>> pairs in the order the callbacks run
RECURSIVE forEachFace(_, _)
forEachFace(comparisonSet, imgIndex) ==
    IF imgIndex >= Len(comparisonSet) THEN <<>>
    ELSE [j \in 1 .. Len(comparisonSet[imgIndex + 1].faces) |-> <<imgIndex, j - 1>>]
            \o forEachFace(comparisonSet, imgIndex + 1)

\* insertion of x behind every record that does not sort after it
RECURSIVE InsertDesc(_, _)
InsertDesc(x, s) ==
    IF s = <<>> THEN <<x>>
    ELSE IF RLt(s[1].similarity, x.similarity) THEN <<x>> \o s
    ELSE <<s[1]>> \o InsertDesc(x, Tail(s))

\* a sort that puts a record in front of the records equal to it
RECURSIVE InsertDescUnstable(_, _)
InsertDescUnstable(x, s) ==
    IF s = <<>> THEN <<x>>
    ELSE IF RLe(s[1].similarity, x.similarity) THEN <<x>> \o s
    ELSE <<s[1]>> \o InsertDescUnstable(x, Tail(s))

RECURSIVE sortBySimilarity_unstable(_)
sortBySimilarity_unstable(results) ==
    IF results = <<>> THEN <<>>
    ELSE InsertDescUnstable(results[Len(results)],
                            sortBySimilarity_unstable(SubSeq(results, 1, Len(results) - 1)))

\* the comparator written (a, b) => a.similarity - b.similarity
RECURSIVE sortBySimilarity_ascending(_)
sortBySimilarity_ascending(results) ==
    IF results = <<>> THEN <<>>
    ELSE LET rest == sortBySimilarity_ascending(Tail(results))
             n    == Cardinality({ i \in 1 .. Len(rest) :
                                     RLt(rest[i].similarity, results[1].similarity) })
         IN  SubSeq(rest, 1, n) \o <<results[1]>> \o SubSeq(rest, n + 1, Len(rest))

\* the sort left out
sortBySimilarity_missing(results) == results

\* results.sort((a, b) => b.similarity - a.similarity): Array.prototype.sort
\* is stable (ECMAScript 2019)
RECURSIVE sortBySimilarity(_)
sortBySimilarity(results) ==
    IF results = <<>> THEN <<>>
    ELSE InsertDesc(results[Len(results)],
                    sortBySimilarity(SubSeq(results, 1, Len(results) - 1)))

\* the scorer called with the reference flag alone
similarityRecord_refFlagOnly(refDescriptor, comp, imgIndex, faceIndex, refHasSunglasses) ==
    LET face     == comp.faces[faceIndex + 1]
        distance == euclideanDistance(refDescriptor, face.descriptor)
        score    == computeSimilarity(distance, refHasSunglasses)
    IN  [fileName            |-> comp.file.name,
         imageIndex          |-> imgIndex,
         faceIndex           |-> faceIndex,
         similarity          |-> score.similarity,
         confidence          |-> score.confidence,
         isMatch             |-> score.isMatch,
         distance            |-> distance,
         hasSunglasses       |-> face.hasSunglasses,
         referenceSunglasses |-> refHasSunglasses,
         refAge              |-> face.refAge,
         compAge             |-> numberOrNull(face.age)]

\* the object pushed by computeAllSimilarities for one face
similarityRecord(refDescriptor, comp, imgIndex, faceIndex, refHasSunglasses) ==
    LET face          == comp.faces[faceIndex + 1]
        distance      == euclideanDistance(refDescriptor, face.descriptor)
        anySunglasses == refHasSunglasses \/ face.hasSunglasses
        score         == computeSimilarity(distance, anySunglasses)
    IN  [fileName            |-> comp.file.name,
         imageIndex          |-> imgIndex,
         faceIndex           |-> faceIndex,
         similarity          |-> score.similarity,
         confidence          |-> score.confidence,
         isMatch             |-> score.isMatch,
         distance            |-> distance,
         hasSunglasses       |-> face.hasSunglasses,
         referenceSunglasses |-> refHasSunglasses,
         refAge              |-> face.refAge,
         compAge             |-> numberOrNull(face.age)]

\* only the first face of each image is scored
allSimilarityRecords_firstFaceOnly(refDescriptor, comparisonSet, refHasSunglasses) ==
    LET withFaces == SelectSeq([i \in 1 .. Len(comparisonSet) |-> i - 1],
                               LAMBDA i : Len(comparisonSet[i + 1].faces) > 0)
    IN  [k \in 1 .. Len(withFaces) |->
            similarityRecord(refDescriptor, comparisonSet[withFaces[k] + 1],
                             withFaces[k], 0, refHasSunglasses)]

\* the records in the order they are pushed
allSimilarityRecords(refDescriptor, comparisonSet, refHasSunglasses) ==
    LET at == forEachFace(comparisonSet, 0)
    IN  [k \in 1 .. Len(at) |->
            similarityRecord(refDescriptor, comparisonSet[at[k][1] + 1],
                             at[k][1], at[k][2], refHasSunglasses)]

computeAllSimilarities(refDescriptor, comparisonSet, refHasSunglasses) ==
    sortBySimilarity(allSimilarityRecords(refDescriptor, comparisonSet, refHasSunglasses))

\* main.js performComparison: the selected reference faces, photo by photo
RECURSIVE selectedReferenceFaces(_)
selectedReferenceFaces(refPhotos) ==
    IF refPhotos = <<>> THEN <<>>
    ELSE SelectSeq(refPhotos[1].faces, LAMBDA face : face.selected)
            \o selectedReferenceFaces(Tail(refPhotos))

\* allRefSunglasses.some(function(s) { return s; })
someSunglasses(faces) == \E i \in 1 .. Len(faces) : faces[i].hasSunglasses

\* the object pushed by performComparison for one face
comparisonRecord(allRefDescriptors, anyRefSunglasses, comp, imgIndex, faceIndex, method) ==
    LET face          == comp.faces[faceIndex + 1]
        anySunglasses == anyRefSunglasses \/ face.hasSunglasses
        result        == computeMultiReferenceSimilarity(allRefDescriptors, face.descriptor,
                                                         anySunglasses, method).value
    IN  [fileName            |-> comp.file.name,
         imageIndex          |-> imgIndex,
         faceIndex           |-> faceIndex,
         similarity          |-> result.similarity,
         confidence          |-> result.confidence,
         isMatch             |-> result.isMatch,
         distance            |-> result.finalDistance,
         distances           |-> result.distances,
         method              |-> result.method,
         referenceCount      |-> result.referenceCount,
         hasSunglasses       |-> face.hasSunglasses,
         referenceSunglasses |-> anyRefSunglasses,
         compAge             |-> numberOrNull(face.age),
         quality             |-> face.quality]

\* what a run leaves behind: whether comparisonResults was assigned, and to what
RunResult(stored, alert, results) ==
    [stored |-> stored, alert |-> alert, comparisonResults |-> results]

\* the forEach over the comparison faces, the sort and the assignment to
\* comparisonResults; an Error thrown by computeMultiReferenceSimilarity
\* leaves the handler before the assignment
scoreAllFaces(allRefDescriptors, anyRefSunglasses, comparisonSet, method) ==
    LET at       == forEachFace(comparisonSet, 0)
        faceAt(k) == comparisonSet[at[k][1] + 1].faces[at[k][2] + 1]
        thrown   == { k \in 1 .. Len(at) :
                        computeMultiReferenceSimilarity(allRefDescriptors,
                            faceAt(k).descriptor,
                            anyRefSunglasses \/ faceAt(k).hasSunglasses, method).threw }
        allComparisons ==
            [k \in 1 .. Len(at) |->
                comparisonRecord(allRefDescriptors, anyRefSunglasses,
                                 comparisonSet[at[k][1] + 1], at[k][1], at[k][2],
                                 method)]
    IN  IF thrown # {}
        THEN Threw("No reference descriptors provided")
        ELSE Returned(RunResult(TRUE, "", sortBySimilarity(allComparisons)))

\* without the check of allRefDescriptors.length
performComparison_noSelectionGuard(refPhotos, comparisonSet, matchMethodValue) ==
    IF Len(refPhotos) = 0 THEN Returned(RunResult(FALSE, "", <<>>))
    ELSE
        LET selected          == selectedReferenceFaces(refPhotos)
            allRefDescriptors == [i \in 1 .. Len(selected) |-> selected[i].descriptor]
        IN  scoreAllFaces(allRefDescriptors, someSunglasses(selected),
                          comparisonSet, matchMethodValue)

performComparison(refPhotos, comparisonSet, matchMethodValue) ==
    IF Len(refPhotos) = 0 THEN Returned(RunResult(FALSE, "", <<>>))
    ELSE
        LET selected          == selectedReferenceFaces(refPhotos)
            allRefDescriptors == [i \in 1 .. Len(selected) |-> selected[i].descriptor]
            anyRefSunglasses  == someSunglasses(selected)
        IN  IF Len(allRefDescriptors) = 0
            THEN Returned(RunResult(FALSE, "Please select at least one reference face", <<>>))
            ELSE scoreAllFaces(allRefDescriptors, anyRefSunglasses,
                               comparisonSet, matchMethodValue)

----------------------------------------------------------------------------
(* The calls.  A caller calls one of the functions with arguments of its   *)
(* choice and later drops the result.                                      *)

Distances == { Frac(k, 100) : k \in (0 - MaxNegDistance) .. MaxDistance }

\* descriptors: single-component vectors at these tenths
DescriptorTenths == {0, 3, 5, 7, 9}
Descriptors == { <<Frac(k, 10)>> : k \in DescriptorTenths }
CompareDescriptors == { <<Frac(0, 10)>>, <<Frac(5, 10)>> }

RefLists == UNION { [1 .. n -> Descriptors] : n \in 0 .. MaxRefs }

KnownMethods == {"best", "average", "median"}
UnknownMethods == {"weighted", "BEST"}
Methods == KnownMethods \cup UnknownMethods \cup {Undefined}

\* comparison faces: 0.35 and 0.55 from the origin (and both 0.1 from 0.45),
\* and a far face with sunglasses
ComparisonFaces ==
    { [descriptor |-> <<Frac(35, 100)>>, hasSunglasses |-> FALSE,
       age |-> JSNumber(31), refAge |-> JSNumber(40), quality |-> JSNumber(80)],
      [descriptor |-> <<Frac(55, 100)>>, hasSunglasses |-> FALSE,
       age |-> JSUndefined, refAge |-> JSUndefined, quality |-> JSNumber(55)],
      [descriptor |-> <<Frac(150, 100)>>, hasSunglasses |-> TRUE,
       age |-> JSNumber(25), refAge |-> JSUndefined, quality |-> JSUndefined] }

FileNames == <<"a.jpg", "b.jpg", "c.jpg", "d.jpg">>

RECURSIVE SumSizes(_)
SumSizes(sz) == IF sz = <<>> THEN 0 ELSE sz[1] + SumSizes(Tail(sz))

\* the faces fs dealt to images of the sizes sz, in order
RECURSIVE Deal(_, _, _, _)
Deal(fs, sz, i, sameName) ==
    IF i > Len(sz) THEN <<>>
    ELSE << [file  |-> [name |-> IF sameName THEN FileNames[1] ELSE FileNames[i]],
             faces |-> SubSeq(fs, 1, sz[i])] >>
            \o Deal(SubSeq(fs, sz[i] + 1, Len(fs)), sz, i + 1, sameName)

\* comparison sets of at most MaxImages images holding at most MaxFaces
\* faces in all; images without a face and images of the same name occur
ComparisonSets ==
    UNION { UNION { { Deal(fs, sz, 1, same) :
                        fs \in [1 .. n -> ComparisonFaces], same \in BOOLEAN } :
                    sz \in { z \in [1 .. i -> 0 .. n] : SumSizes(z) = n } } :
            n \in 0 .. MaxFaces, i \in 0 .. MaxImages }

RankingRefDescriptors == { <<Num(0)>>, <<Frac(45, 100)>> }

ReferenceFace(tenths, sunglasses, age, selected) ==
    [descriptor |-> <<Frac(tenths, 100)>>, hasSunglasses |-> sunglasses,
     age |-> age, selected |-> selected]

ReferencePhoto(faces) == [file |-> [name |-> "ref.jpg"], faces |-> faces]

\* reference photo lists: none; one selected face; one deselected face; two
\* photos, the second with sunglasses; a deselected face with sunglasses
\* beside a selected one; a selected face with sunglasses and a deselected one
ReferencePhotoLists ==
    { <<>>,
      << ReferencePhoto(<<ReferenceFace(0, FALSE, JSNumber(40), TRUE)>>) >>,
      << ReferencePhoto(<<ReferenceFace(0, FALSE, JSNumber(40), FALSE)>>) >>,
      << ReferencePhoto(<<ReferenceFace(0, FALSE, JSNumber(40), TRUE)>>),
         ReferencePhoto(<<ReferenceFace(45, TRUE, JSUndefined, TRUE)>>) >>,
      << ReferencePhoto(<<ReferenceFace(0, FALSE, JSNumber(40), TRUE),
                          ReferenceFace(45, TRUE, JSUndefined, FALSE)>>) >>,
      << ReferencePhoto(<<ReferenceFace(45, TRUE, JSUndefined, TRUE)>>),
         ReferencePhoto(<<ReferenceFace(0, FALSE, JSNumber(40), FALSE)>>) >> }

\* no call made yet
NoCall ==
    /\ fn = "none"
    /\ args = NoValue
    /\ outcome = Returned(NoValue)
    /\ callerData = NoArrays

\* main.js as loaded: the three lists empty, no handler running
PageLoaded ==
    /\ referencePhotos = <<>>
    /\ comparisons = <<>>
    /\ comparisonResults = <<>>
    /\ referenceUploads = <<>>
    /\ comparisonUploads = <<>>
    /\ orphanButtons = {}
    /\ resultsShown = FALSE
    /\ zipExports = <<>>

\* the functions of comparison.js are called on a page that is left alone
Init ==
    /\ NoCall
    /\ PageLoaded
    /\ compareBtnDisabled = TRUE

Call_computeSimilarity ==
    /\ fn = "none"
    /\ \E d \in Distances, s \in BOOLEAN :
        /\ fn' = "computeSimilarity"
        /\ args' = [distance |-> d, anySunglasses |-> s]
        /\ outcome' = Returned(computeSimilarity(d, s))
        /\ callerData' = NoArrays
        /\ UNCHANGED pageVars

Call_computeSimilarity_2 ==
    /\ fn = "none"
    /\ \E d \in Distances, s \in BOOLEAN :
        /\ fn' = "computeSimilarity_2"
        /\ args' = [distance |-> d, anySunglasses |-> s]
        /\ outcome' = Returned(computeSimilarity_2(d, s))
        /\ callerData' = NoArrays
        /\ UNCHANGED pageVars

Call_computeMultiReferenceSimilarity ==
    /\ fn = "none"
    /\ \E refs \in RefLists, c \in CompareDescriptors, s \in BOOLEAN, m \in Methods :
        /\ fn' = "computeMultiReferenceSimilarity"
        /\ args' = [refDescriptors |-> refs, compareDescriptor |-> c,
                    anySunglasses |-> s, method |-> m]
        /\ outcome' = computeMultiReferenceSimilarity(refs, c, s, m)
        /\ callerData' = computeMultiReferenceSimilarity_arrays(refs, c, m)
        /\ UNCHANGED pageVars

Call_computeAllSimilarities ==
    /\ fn = "none"
    /\ \E ref \in RankingRefDescriptors, comps \in ComparisonSets, s \in BOOLEAN :
        /\ fn' = "computeAllSimilarities"
        /\ args' = [refDescriptor |-> ref, comparisons |-> comps, refHasSunglasses |-> s]
        /\ outcome' = Returned(computeAllSimilarities(ref, comps, s))
        /\ callerData' = computeAllSimilarities_arrays(ref, comps)
        /\ UNCHANGED pageVars

\* the Compare button or the keyboard shortcut, on the photos loaded so far
Call_performComparison ==
    /\ fn = "none"
    /\ \E refs \in ReferencePhotoLists, comps \in ComparisonSets, m \in KnownMethods :
        /\ fn' = "performComparison"
        /\ args' = [referencePhotos |-> refs, comparisons |-> comps, method |-> m]
        /\ outcome' = performComparison(refs, comps, m)
        /\ callerData' = NoArrays
        /\ UNCHANGED pageVars

\* the caller is done with the result
Discard ==
    /\ fn # "none"
    /\ fn' = "none"
    /\ args' = NoValue
    /\ outcome' = Returned(NoValue)
    /\ callerData' = NoArrays
    /\ UNCHANGED pageVars

Next ==
    \/ Call_computeSimilarity
    \/ Call_computeSimilarity_2
    \/ Call_computeMultiReferenceSimilarity
    \/ Call_computeAllSimilarities
    \/ Call_performComparison
    \/ Discard

Spec == Init /\ [][Next]_vars

----------------------------------------------------------------------------
(* main.js: the page.  The handlers run one at a time; an async handler    *)
(* gives way at each await, and the handlers that run meanwhile see and    *)
(* change the same three lists.  showProcessing, the canvases and the      *)
(* other drawing leave the lists alone and are left out; so is the debug   *)
(* redraw, which only takes the click handlers off the face boxes.         *)

\* CONFIG.ui.maxReferencePhotos, CONFIG.export.matchThreshold
maxReferencePhotos == 5
matchThreshold == 60

\* setDisabledState: the value it gives compareBtn.disabled
setDisabledState(refPhotos, comparisonSet) ==
    LET selectedRefFaces == Len(selectedReferenceFaces(refPhotos))
        totalCompFaces   == Len(forEachFace(comparisonSet, 0))
    IN  ~(selectedRefFaces > 0 /\ totalCompFaces > 0)

\* the object handleReferencePhotos pushes, with the index its remove
\* button passes to removeReferencePhoto (currentIndex, taken before the
\* detection), the dataset.refIndex of its face boxes, and whether its
\* wrapper is in the document
storedReference(detections, currentIndex, length, inPage) ==
    [file        |-> [name |-> "ref.jpg"],
     faces       |-> detections,
     index       |-> length,
     removeIndex |-> currentIndex,
     refIndex    |-> length,
     inPage      |-> inPage]

\* a handler that ends, or gives way at an await, with nothing handed back
NothingReturned ==
    /\ fn' = "none"
    /\ args' = NoValue
    /\ outcome' = Returned(NoValue)
    /\ callerData' = NoArrays

\* a handler the properties look at: its name, what it was given or found,
\* and what it handed back (a value, an alert, an Error)
PageEvent(name, a, o) ==
    /\ fn' = name
    /\ args' = a
    /\ outcome' = o
    /\ callerData' = NoArrays

\* a handleReferencePhotos call between two awaits: the files not yet
\* done, the await it is at, the currentIndex of the file under way and
\* whether that file's wrapper is in the document
ReferenceUpload(left, awaiting, currentIndex, inPage) ==
    [left |-> left, awaiting |-> awaiting, currentIndex |-> currentIndex,
     inPage |-> inPage]

\* the files a call has still to store, over all calls
RECURSIVE FilesLeft(_)
FilesLeft(uploads) ==
    IF uploads = <<>> THEN 0 ELSE uploads[1].left + FilesLeft(Tail(uploads))

RemoveAt(s, i) == SubSeq(s, 1, i - 1) \o SubSeq(s, i + 1, Len(s))

\* handleReferencePhotos up to its first await: the limit check, then the
\* first file's fileToImage.  sizes, calls and files bound the files
\* dropped at once, the calls in flight and the files stored or under way
handleReferencePhotos(sizes, calls, files) ==
    /\ Len(referenceUploads) < calls
    /\ \E n \in sizes :
        /\ Len(referencePhotos) + FilesLeft(referenceUploads) + n <= files
        /\ IF Len(referencePhotos) + n > maxReferencePhotos
           THEN /\ PageEvent("handleReferencePhotos", NoValue,
                             Returned([alert |-> "Maximum reference photos allowed"]))
                /\ UNCHANGED pageVars
           ELSE /\ NothingReturned
                /\ referenceUploads' =
                      Append(referenceUploads, ReferenceUpload(n, "fileToImage", 0, TRUE))
                /\ UNCHANGED <<referencePhotos, comparisons, comparisonResults,
                               compareBtnDisabled, comparisonUploads, orphanButtons,
                               resultsShown, zipExports>>

\* the loop moves to the next file, or the call ends with setDisabledState
\* on the lists as they are then
referenceLoopNext(u, photos, orphans) ==
    /\ referencePhotos' = photos
    /\ orphanButtons' = orphans
    /\ IF referenceUploads[u].left > 1
       THEN /\ referenceUploads' =
                  [referenceUploads EXCEPT ![u] =
                      ReferenceUpload(@.left - 1, "fileToImage", 0, TRUE)]
            /\ UNCHANGED compareBtnDisabled
       ELSE /\ referenceUploads' = RemoveAt(referenceUploads, u)
            /\ compareBtnDisabled' = setDisabledState(photos, comparisons)
    /\ UNCHANGED <<comparisons, comparisonResults, comparisonUploads,
                   resultsShown, zipExports>>

\* fileToImage settles: the image is there and the remove button is made
\* with currentIndex = referencePhotos.length, or the load fails (catch)
handleReferencePhotos_fileToImage ==
    \E u \in 1 .. Len(referenceUploads) :
        /\ referenceUploads[u].awaiting = "fileToImage"
        /\ NothingReturned
        /\ \/ /\ referenceUploads' =
                    [referenceUploads EXCEPT ![u] =
                        ReferenceUpload(@.left, "detectAllFaces",
                                        Len(referencePhotos), @.inPage)]
              /\ UNCHANGED <<referencePhotos, comparisons, comparisonResults,
                             compareBtnDisabled, comparisonUploads, orphanButtons,
                             resultsShown, zipExports>>
           \/ referenceLoopNext(u, referencePhotos, orphanButtons)

\* detectAllFaces settles: no face (or an error) leaves the wrapper with
\* its remove button beside an error note; otherwise the faces that pass
\* the quality filter are marked selected and the photo is pushed
handleReferencePhotos_detectAllFaces(detected) ==
    \E u \in 1 .. Len(referenceUploads) :
        LET call == referenceUploads[u]
        IN  /\ call.awaiting = "detectAllFaces"
            /\ NothingReturned
            /\ \/ referenceLoopNext(u, referencePhotos,
                      IF call.inPage THEN orphanButtons \cup {call.currentIndex}
                                     ELSE orphanButtons)
               \/ \E detections \in detected :
                      referenceLoopNext(u,
                          Append(referencePhotos,
                                 storedReference(detections, call.currentIndex,
                                                 Len(referencePhotos), call.inPage)),
                          orphanButtons)

\* removeReferencePhoto(index) once confirmed: splice(index, 1), the
\* remaining photos re-indexed, setDisabledState
removeReferencePhoto(index) ==
    LET spliced == IF index < Len(referencePhotos)
                   THEN RemoveAt(referencePhotos, index + 1)
                   ELSE referencePhotos
    IN  /\ referencePhotos' = [i \in 1 .. Len(spliced) |->
                                  [spliced[i] EXCEPT !.index = i - 1]]
        /\ compareBtnDisabled' = setDisabledState(spliced, comparisons)
        /\ UNCHANGED <<comparisons, comparisonResults, referenceUploads,
                       comparisonUploads, orphanButtons, resultsShown, zipExports>>

\* the remove button of the stored photo at position p (from 0) is clicked
removeBtn_onclick ==
    \E p \in 0 .. Len(referencePhotos) - 1 :
        /\ referencePhotos[p + 1].inPage
        /\ PageEvent("removeReferencePhoto",
                     [clicked |-> p, before |-> referencePhotos], Returned(NoValue))
        /\ removeReferencePhoto(referencePhotos[p + 1].removeIndex)

\* the remove button of a photo that is not stored is clicked: one left
\* beside an error note, or that of a file whose detection is under way
removeBtn_onclick_notStored ==
    \E index \in orphanButtons \cup
                 { referenceUploads[u].currentIndex : u \in
                     { v \in 1 .. Len(referenceUploads) :
                         /\ referenceUploads[v].awaiting = "detectAllFaces"
                         /\ referenceUploads[v].inPage } } :
        /\ PageEvent("removeReferencePhoto",
                     [clicked |-> -1, before |-> referencePhotos], Returned(NoValue))
        /\ removeReferencePhoto(index)

\* a face box of the stored photo at position p is clicked
toggleFaceSelection ==
    \E p \in 1 .. Len(referencePhotos) :
        \E faceIndex \in 0 .. Len(referencePhotos[p].faces) - 1 :
            LET refIndex == referencePhotos[p].refIndex
                toggled  == [referencePhotos EXCEPT
                                ![refIndex + 1].faces[faceIndex + 1].selected = ~@]
            IN  /\ referencePhotos[p].inPage
                /\ NothingReturned
                /\ IF /\ refIndex < Len(referencePhotos)
                      /\ faceIndex < Len(referencePhotos[refIndex + 1].faces)
                   THEN /\ referencePhotos' = toggled
                        /\ compareBtnDisabled' = setDisabledState(toggled, comparisons)
                   ELSE UNCHANGED <<referencePhotos, compareBtnDisabled>>
                /\ UNCHANGED <<comparisons, comparisonResults, referenceUploads,
                               comparisonUploads, orphanButtons, resultsShown,
                               zipExports>>

\* a file dropped on the comparison area or an image picked from a page:
\* its name, whether the detector finds a face in it, and the faces that
\* pass the quality filter
ComparisonFile(name, detected, faces) ==
    [file |-> [name |-> name], detected |-> detected, faces |-> faces]

\* a handleComparisons or processSelectedUrlImages call between two awaits
ComparisonUpload(files) == [files |-> files]

\* handleComparisons up to its first await: comparisons = [], then the
\* first file's fileToImage
handleComparisons(batches, calls) ==
    /\ Len(comparisonUploads) < calls
    /\ \E files \in batches :
        /\ NothingReturned
        /\ comparisons' = <<>>
        /\ comparisonUploads' =
              Append(comparisonUploads, ComparisonUpload(files))
        /\ UNCHANGED <<referencePhotos, comparisonResults, compareBtnDisabled,
                       referenceUploads, orphanButtons, resultsShown, zipExports>>

\* processSelectedUrlImages up to its first await: nothing picked is an
\* alert; otherwise comparisons = [], then the first image's detection
processSelectedUrlImages(batches, calls) ==
    \/ /\ PageEvent("processSelectedUrlImages", NoValue,
                    Returned([alert |-> "Please select at least one image"]))
       /\ UNCHANGED pageVars
    \/ /\ Len(comparisonUploads) < calls
       /\ \E files \in batches :
           /\ NothingReturned
           /\ comparisons' = <<>>
           /\ comparisonUploads' =
                 Append(comparisonUploads, ComparisonUpload(files))
           /\ UNCHANGED <<referencePhotos, comparisonResults, compareBtnDisabled,
                          referenceUploads, orphanButtons, resultsShown, zipExports>>

\* the detection of a call's file settles (nothing between the awaits of a
\* file reads or writes the lists): a file with faces is pushed onto the
\* comparisons of that moment; after the last file, setDisabledState
comparisonUpload_detectAllFaces ==
    \E u \in 1 .. Len(comparisonUploads) :
        LET call   == comparisonUploads[u]
            this   == Head(call.files)
            pushed == IF this.detected
                      THEN Append(comparisons, [file |-> this.file, faces |-> this.faces])
                      ELSE comparisons
        IN  /\ NothingReturned
            /\ comparisons' = pushed
            /\ IF Len(call.files) > 1
               THEN /\ comparisonUploads' =
                          [comparisonUploads EXCEPT ![u].files = Tail(@)]
                    /\ UNCHANGED compareBtnDisabled
               ELSE /\ comparisonUploads' = RemoveAt(comparisonUploads, u)
                    /\ compareBtnDisabled' = setDisabledState(referencePhotos, pushed)
            /\ UNCHANGED <<referencePhotos, comparisonResults, referenceUploads,
                           orphanButtons, resultsShown, zipExports>>

\* the assignment comparisonResults = allComparisons, which a run that
\* returns early or throws does not reach; here the run's records are
\* added to the stored ones
storeResults_appends(stored, run) ==
    IF ~run.threw /\ run.value.stored
    THEN stored \o run.value.comparisonResults ELSE stored

storeResults(stored, run) ==
    IF ~run.threw /\ run.value.stored THEN run.value.comparisonResults ELSE stored

\* the Compare button, or Ctrl+c while the button is enabled:
\* performComparison clears resultsDiv, and a run that scores renders the
\* results and the export buttons into it
compareBtn_click(methods) ==
    /\ ~compareBtnDisabled
    /\ \E method \in methods :
        LET run == performComparison(referencePhotos, comparisons, method)
        IN  /\ PageEvent("performComparison", [previous |-> comparisonResults], run)
            /\ comparisonResults' = storeResults(comparisonResults, run)
            /\ resultsShown' = (~run.threw /\ run.value.stored)
            /\ UNCHANGED <<referencePhotos, comparisons, compareBtnDisabled,
                           referenceUploads, comparisonUploads, orphanButtons,
                           zipExports>>

\* Clear, or the Escape key, once confirmed; the calls in flight go on, the
\* wrappers of their files under way are no longer in the document
clearAll ==
    /\ NothingReturned
    /\ referencePhotos' = <<>>
    /\ comparisons' = <<>>
    /\ comparisonResults' = <<>>
    /\ orphanButtons' = {}
    /\ resultsShown' = FALSE
    /\ compareBtnDisabled' = setDisabledState(<<>>, <<>>)
    /\ referenceUploads' = [u \in 1 .. Len(referenceUploads) |->
                               [referenceUploads[u] EXCEPT !.inPage = FALSE]]
    /\ UNCHANGED <<comparisonUploads, zipExports>>

\* comparisonResults.filter(c => c.similarity >= threshold)
matchesAtLeast(results, threshold) ==
    SelectSeq(results, LAMBDA c : RLe(Num(threshold), c.similarity))

\* exportMatchSheet: its alerts, and the crops it lays out; each crop is
\* cut from the face now at comparisons[m.imageIndex].faces[m.faceIndex]
\* and labelled with the record's fileName (the ages of the model are
\* whole, as Math.round leaves them)
exportMatchSheet(refPhotos, results, comparisonSet) ==
    LET matches == matchesAtLeast(results, matchThreshold)
        found   == SelectSeq(matches, LAMBDA m :
                       /\ m.imageIndex < Len(comparisonSet)
                       /\ m.faceIndex < Len(comparisonSet[m.imageIndex + 1].faces))
        face(m) == comparisonSet[m.imageIndex + 1].faces[m.faceIndex + 1]
        matchCrops ==
            [k \in 1 .. Len(found) |->
                [crop       |-> [image |-> comparisonSet[found[k].imageIndex + 1].file.name,
                                 face  |-> face(found[k]).descriptor],
                 similarity |-> found[k].similarity,
                 fileName   |-> found[k].fileName,
                 faceIndex  |-> found[k].faceIndex,
                 age        |-> numberOrNull(face(found[k]).age)]]
    IN  IF Len(refPhotos) = 0
        THEN Returned([alert |-> "No reference faces available."])
        ELSE IF Len(results) = 0
        THEN Returned([alert |-> "No comparison results available."])
        ELSE IF Len(matches) = 0
        THEN Returned([alert |-> "No matches"])
        ELSE IF Len(refPhotos[1].faces) = 0
        THEN Threw("TypeError: refFace is undefined")
        ELSE IF Len(matchCrops) = 0
        THEN Returned([alert |-> "No valid face crops to export."])
        ELSE Returned([matchCrops |-> matchCrops])

\* the export sheet button, which the last run rendered if it had a match
exportSheetBtn_click ==
    /\ resultsShown
    /\ Len(matchesAtLeast(comparisonResults, matchThreshold)) > 0
    /\ PageEvent("exportMatchSheet", NoValue,
                 exportMatchSheet(referencePhotos, comparisonResults, comparisons))
    /\ UNCHANGED pageVars

\* an exportMatchingPhotosToZip call waiting for readFileAsArrayBuffer: the
\* matches it filtered on entry, the match whose file it is reading (from
\* 1) with the name that file had in comparisons, and the files added
ZipExport(threshold, matches, reading, fileName, added) ==
    [threshold |-> threshold, matches |-> matches, reading |-> reading,
     fileName |-> fileName, added |-> added]

\* the loop from match k on, up to its next await: the first match whose
\* image is in comparisons and whose file and face are not yet added; 0
\* when the loop ends
RECURSIVE zipNextRead(_, _, _, _)
zipNextRead(matches, k, added, comparisonSet) ==
    IF k > Len(matches) THEN 0
    ELSE IF /\ matches[k].imageIndex < Len(comparisonSet)
            /\ \A a \in 1 .. Len(added) :
                  added[a].fileKey # <<comparisonSet[matches[k].imageIndex + 1].file.name,
                                       matches[k].faceIndex>>
    THEN k
    ELSE zipNextRead(matches, k + 1, added, comparisonSet)

\* the call goes on to its next await, or ends and hands over the archive
zipLoopNext(threshold, matches, k, added, rest) ==
    LET next == zipNextRead(matches, k, added, comparisons)
    IN  /\ IF next = 0
           THEN /\ zipExports' = rest
                /\ PageEvent("exportMatchingPhotosToZip", NoValue,
                             Returned([files |-> added]))
           ELSE /\ zipExports' = rest \o
                      << ZipExport(threshold, matches, next,
                                   comparisons[matches[next].imageIndex + 1].file.name,
                                   added) >>
                /\ NothingReturned
        /\ UNCHANGED <<referencePhotos, comparisons, comparisonResults,
                       compareBtnDisabled, referenceUploads, comparisonUploads,
                       orphanButtons, resultsShown>>

\* a threshold button of the ZIP export, which the last run rendered
\* enabled if it had a match at that threshold
zipExportBtn_click(calls) ==
    /\ resultsShown
    /\ Len(zipExports) < calls
    /\ \E threshold \in {60, 75, 80, 90} :
        /\ Len(matchesAtLeast(comparisonResults, threshold)) > 0
        /\ zipLoopNext(threshold, matchesAtLeast(comparisonResults, threshold),
                       1, <<>>, zipExports)

\* readFileAsArrayBuffer settles: the file is added under a name made of
\* the name read before the await and the record's face and similarity,
\* or the read fails (catch) and the loop goes on without it
exportMatchingPhotosToZip_readFile ==
    \E z \in 1 .. Len(zipExports) :
        LET call  == zipExports[z]
            match == call.matches[call.reading]
            added == Append(call.added,
                         [fileKey     |-> <<call.fileName, match.faceIndex>>,
                          newFileName |-> [baseName   |-> call.fileName,
                                           face       |-> match.faceIndex + 1,
                                           similarity |-> match.similarity]])
        IN  \E read \in {added, call.added} :
                zipLoopNext(call.threshold, call.matches, call.reading + 1, read,
                            RemoveAt(zipExports, z))

\* what the detector and the quality filter leave of a reference file: no
\* face, or one face
ReferenceDetections ==
    { <<>>, <<ReferenceFace(0, FALSE, JSNumber(40), TRUE)>> }

\* the comparison files: a.jpg with the face at 0.35, b.jpg with the faces
\* at 0.55 and 1.5, c.jpg in which no face is found
ComparisonFileA ==
    ComparisonFile("a.jpg", TRUE,
        << CHOOSE f \in ComparisonFaces : f.descriptor = <<Frac(35, 100)>> >>)
ComparisonFileB ==
    ComparisonFile("b.jpg", TRUE,
        << CHOOSE f \in ComparisonFaces : f.descriptor = <<Frac(55, 100)>>,
           CHOOSE f \in ComparisonFaces : f.descriptor = <<Frac(150, 100)>> >>)
ComparisonFileC == ComparisonFile("c.jpg", FALSE, <<>>)
ComparisonFiles == {ComparisonFileA, ComparisonFileB, ComparisonFileC}

\* the files dropped at once: up to n different files, in any order
ComparisonBatches(n) ==
    { files \in UNION { [1 .. k -> ComparisonFiles] : k \in 1 .. n } :
        \A i, j \in 1 .. Len(files) : i # j => files[i] # files[j] }

\* the page as loaded; index.html, which says whether the Compare button
\* starts disabled, is not among the sources
PageInit ==
    /\ NoCall
    /\ PageLoaded
    /\ compareBtnDisabled \in BOOLEAN

\* the page: uploads of both kinds, removals, face clicks, runs, the sheet
\* export and Clear, with few reference photos and the method select left
\* at one method
PageNext ==
    \/ handleReferencePhotos(1 .. MaxDrop, MaxCalls, MaxReferenceFiles)
    \/ handleReferencePhotos_fileToImage
    \/ handleReferencePhotos_detectAllFaces(ReferenceDetections)
    \/ removeBtn_onclick
    \/ removeBtn_onclick_notStored
    \/ toggleFaceSelection
    \/ handleComparisons(ComparisonBatches(MaxDrop), MaxCalls)
    \/ processSelectedUrlImages(ComparisonBatches(MaxDrop), MaxCalls)
    \/ comparisonUpload_detectAllFaces
    \/ compareBtn_click({CONFIG.similarity.multiReferenceMethod})
    \/ exportSheetBtn_click
    \/ clearAll

PageSpec == PageInit /\ [][PageNext]_vars

\* the results panel: one reference photo, comparison uploads one file at
\* a time, runs with each method of the select and both exports
ExportNext ==
    \/ handleReferencePhotos({1}, MaxCalls, 1)
    \/ handleReferencePhotos_fileToImage
    \/ handleReferencePhotos_detectAllFaces(ReferenceDetections)
    \/ handleComparisons(ComparisonBatches(1), MaxCalls)
    \/ processSelectedUrlImages(ComparisonBatches(1), MaxCalls)
    \/ comparisonUpload_detectAllFaces
    \/ compareBtn_click(KnownMethods)
    \/ exportSheetBtn_click
    \/ zipExportBtn_click(MaxCalls)
    \/ exportMatchingPhotosToZip_readFile
    \/ clearAll

ExportSpec == PageInit /\ [][ExportNext]_vars

\* the reference panel alone: drops of three files, two calls at a time
UploadNext ==
    \/ handleReferencePhotos({3}, MaxPanelCalls, MaxPanelFiles)
    \/ handleReferencePhotos_fileToImage
    \/ handleReferencePhotos_detectAllFaces(ReferenceDetections)

UploadSpec == PageInit /\ [][UploadNext]_vars

----------------------------------------------------------------------------
(* Properties of the scorer.  The band table of the design is written out  *)
(* in integers: distances in hundredths, similarities in thousandths of a  *)
(* percent, so that a coefficient of 12.5 per unit is 125 per hundredth.   *)

IsScorerCall == fn = "computeSimilarity"
IsAnyScorerCall == fn \in {"computeSimilarity", "computeSimilarity_2"}
IsAggregatorCall == fn = "computeMultiReferenceSimilarity"

\* the distance argument of a scorer call, in hundredths
Hundredths(d) == d.num * (100 \div d.den)
AdjustHundredths(anySunglasses) == IF anySunglasses THEN 10 ELSE 0

BandTable ==
    << [bound |-> 40, base |-> 95000, slope |-> 125,  confidence |-> "Very High", isMatch |-> TRUE],
       [bound |-> 50, base |-> 85000, slope |-> 1000, confidence |-> "High",      isMatch |-> TRUE],
       [bound |-> 60, base |-> 70000, slope |-> 1500, confidence |-> "Good",      isMatch |-> TRUE],
       [bound |-> 70, base |-> 50000, slope |-> 2000, confidence |-> "Low",       isMatch |-> FALSE] >>

ClampThousandths(x) == IF x < 0 THEN 0 ELSE IF x > 100000 THEN 100000 ELSE x

\* the rows whose strict test holds for distance k (hundredths)
RowsHolding(k, adj) == { i \in 1 .. 4 : k < BandTable[i].bound + adj }
FirstRow(k, adj) == CHOOSE i \in RowsHolding(k, adj) : \A j \in RowsHolding(k, adj) : i <= j

TableResult(k, adj) ==
    LET row == BandTable[FirstRow(k, adj)]
    IN  [similarity |-> Frac(ClampThousandths(row.base + (row.bound + adj - k) * row.slope), 1000),
         confidence |-> row.confidence,
         isMatch    |-> row.isMatch]

\* C1: whenever some band's strict test d < boundary + adjust holds,
\* computeSimilarity returns the similarity (clamped to [0, 100]), confidence
\* and isMatch of the first such band of the table; 0.39, 0.45, 0.55 and 0.65
\* without sunglasses give Very High, High, Good (matches) and Low (no match).
C1_FirstBandOfTable ==
    IsScorerCall =>
        LET k   == Hundredths(args.distance)
            adj == AdjustHundredths(args.anySunglasses)
            v   == outcome.value
        IN  /\ ~outcome.threw
            /\ RowsHolding(k, adj) # {} => v = TableResult(k, adj)
            /\ ~args.anySunglasses =>
                /\ k = 39 => v.confidence = "Very High" /\ v.isMatch
                /\ k = 45 => v.confidence = "High"
                /\ k = 55 => v.confidence = "Good"
                /\ k = 65 => v.confidence = "Low" /\ ~v.isMatch

C1_Witness ==
    /\ IsScorerCall
    /\ args = [distance |-> Frac(65, 100), anySunglasses |-> FALSE]
    /\ outcome.value = [similarity |-> Num(60), confidence |-> "Low", isMatch |-> FALSE]

\* C2: the similarity returned by either definition of computeSimilarity is
\* within [0, 100], for negative and for large distances too.
C2_SimilarityInRange ==
    IsAnyScorerCall =>
        /\ 0 <= outcome.value.similarity.num
        /\ outcome.value.similarity.num <= 100 * outcome.value.similarity.den

\* a negative distance, whose first-band value 102.5 is clamped to 100
C2_Witness ==
    /\ IsScorerCall
    /\ args.distance = Frac(-20, 100)
    /\ ~args.anySunglasses
    /\ outcome.value.similarity = Num(100)

\* C3: for d >= low + adjust every definition of computeSimilarity returns
\* 'Very Low', isMatch false and max(0, 50 - (d - (low + adjust)) * 100).
C3_FallThroughIsVeryLow ==
    IsAnyScorerCall =>
        LET k   == Hundredths(args.distance)
            adj == AdjustHundredths(args.anySunglasses)
            v   == outcome.value
        IN  k >= 70 + adj =>
                /\ v.confidence = "Very Low"
                /\ ~v.isMatch
                /\ v.similarity = Frac(ClampThousandths(50000 - (k - (70 + adj)) * 1000), 1000)

\* C4: at each adjusted boundary the similarity is the value the band just
\* below the boundary reaches there: 95, 85, 70 and 50.
C4_NoJumpAtBoundaries ==
    IsScorerCall =>
        LET k   == Hundredths(args.distance)
            adj == AdjustHundredths(args.anySunglasses)
        IN  \A i \in 1 .. 4 :
                k = BandTable[i].bound + adj =>
                    outcome.value.similarity =
                        Frac(BandTable[i].base + (BandTable[i].bound + adj - k) * BandTable[i].slope, 1000)

\* high + adjust with sunglasses: the Good band starts at exactly 85
C4_Witness ==
    /\ IsScorerCall
    /\ args = [distance |-> Frac(60, 100), anySunglasses |-> TRUE]
    /\ outcome.value.similarity = Num(85)
    /\ outcome.value.confidence = "Good"

\* C5: a distance equal to an adjusted boundary is classified by the next
\* branch: High, Good, Low (no match) and Very Low.
C5_BoundaryBelongsToNextBand ==
    IsScorerCall =>
        LET k   == Hundredths(args.distance)
            adj == AdjustHundredths(args.anySunglasses)
            v   == outcome.value
        IN  /\ k = 40 + adj => v.confidence = "High" /\ v.isMatch
            /\ k = 50 + adj => v.confidence = "Good" /\ v.isMatch
            /\ k = 60 + adj => v.confidence = "Low" /\ ~v.isMatch
            /\ k = 70 + adj => v.confidence = "Very Low" /\ ~v.isMatch

C5_Witness ==
    /\ IsScorerCall
    /\ args = [distance |-> Frac(60, 100), anySunglasses |-> FALSE]
    /\ outcome.value.confidence = "Low"
    /\ ~outcome.value.isMatch

----------------------------------------------------------------------------
(* Properties of the aggregator.                                           *)

\* the per-reference distance, from the arguments of the call
ArgDistance(i) == RAbs(RSub(args.refDescriptors[i][1], args.compareDescriptor[1]))

RECURSIVE ArgDistanceSum(_)
ArgDistanceSum(n) == IF n = 0 THEN Num(0) ELSE RAdd(ArgDistance(n), ArgDistanceSum(n - 1))

\* C7: with an empty refDescriptors the call fails with
\* 'No reference descriptors provided' and returns nothing.
C7_EmptyReferencesThrow ==
    IsAggregatorCall /\ Len(args.refDescriptors) = 0 =>
        /\ outcome.threw
        /\ outcome.message = "No reference descriptors provided"
        /\ outcome.value = NoValue

C7_Witness ==
    /\ IsAggregatorCall
    /\ args.refDescriptors = <<>>
    /\ args.method = "median"
    /\ args.anySunglasses
    /\ outcome.threw

\* C8: for a non-empty list, a method that is none of 'best', 'average',
\* 'median' is no error; finalDistance is the arithmetic mean of the
\* distances, as for method 'average'.
C8_UnknownMethodIsAverage ==
    IsAggregatorCall /\ Len(args.refDescriptors) > 0 /\ args.method \notin KnownMethods =>
        /\ ~outcome.threw
        /\ RMul(outcome.value.finalDistance, Num(Len(args.refDescriptors)))
              = ArgDistanceSum(Len(args.refDescriptors))
        /\ outcome.value.finalDistance =
              computeMultiReferenceSimilarity(args.refDescriptors, args.compareDescriptor,
                                              args.anySunglasses, "average").value.finalDistance

\* distances 0.3 and 0.9: the mean 0.6 is neither the minimum nor a distance
C8_Witness ==
    /\ IsAggregatorCall
    /\ args.refDescriptors = << <<Frac(3, 10)>>, <<Frac(9, 10)>> >>
    /\ args.compareDescriptor = <<Num(0)>>
    /\ args.method = "weighted"
    /\ ~outcome.threw
    /\ outcome.value.finalDistance = Frac(6, 10)

\* C9: the method field of the result is the resolved method: one of
\* 'best', 'average', 'median', and 'average' when the caller's method is
\* not recognized.
C9_MethodFieldIsResolved ==
    IsAggregatorCall /\ ~outcome.threw =>
        /\ outcome.value.method \in KnownMethods
        /\ args.method \notin KnownMethods => outcome.value.method = "average"

\* C10: distances[i] is the distance between refDescriptors[i] and
\* compareDescriptor, in reference order, for every method, and
\* distances.length = referenceCount = refDescriptors.length >= 1.
C10_DistancesInReferenceOrder ==
    IsAggregatorCall /\ Len(args.refDescriptors) > 0 =>
        /\ ~outcome.threw
        /\ Len(outcome.value.distances) = outcome.value.referenceCount
        /\ outcome.value.referenceCount = Len(args.refDescriptors)
        /\ outcome.value.referenceCount >= 1
        /\ \A i \in 1 .. Len(args.refDescriptors) :
              outcome.value.distances[i] = ArgDistance(i)

\* method 'median' on distances that are not in ascending order
C10_Witness ==
    /\ IsAggregatorCall
    /\ args.method = "median"
    /\ args.compareDescriptor = <<Num(0)>>
    /\ args.refDescriptors = << <<Frac(7, 10)>>, <<Frac(3, 10)>>, <<Frac(5, 10)>> >>
    /\ outcome.value.distances = <<Frac(7, 10), Frac(3, 10), Frac(5, 10)>>
    /\ outcome.value.finalDistance = Frac(5, 10)

\* the distances of the call, as a set of positions
ArgPositions == 1 .. Len(args.refDescriptors)

\* C11: for a non-empty list, finalDistance is the minimum of the distances
\* for method 'best' and their sum divided by their count for 'average'.
C11_BestIsMinAverageIsMean ==
    IsAggregatorCall /\ Len(args.refDescriptors) > 0 =>
        /\ args.method = "best" =>
              /\ \E i \in ArgPositions : outcome.value.finalDistance = ArgDistance(i)
              /\ \A i \in ArgPositions : RLe(outcome.value.finalDistance, ArgDistance(i))
        /\ args.method = "average" =>
              RMul(outcome.value.finalDistance, Num(Len(args.refDescriptors)))
                  = ArgDistanceSum(Len(args.refDescriptors))

\* 'best' of the distances 0.7, 0.3, 0.9 is 0.3
C11_Witness ==
    /\ IsAggregatorCall
    /\ args.method = "best"
    /\ args.compareDescriptor = <<Num(0)>>
    /\ args.refDescriptors = << <<Frac(7, 10)>>, <<Frac(3, 10)>>, <<Frac(9, 10)>> >>
    /\ outcome.value.finalDistance = Frac(3, 10)

\* the k-th smallest distance of the call: fewer than k distances are
\* below it and at least k are not above it
IsKthSmallest(v, k) ==
    /\ \E i \in ArgPositions : ArgDistance(i) = v
    /\ Cardinality({ i \in ArgPositions : RLt(ArgDistance(i), v) }) < k
    /\ Cardinality({ i \in ArgPositions : RLe(ArgDistance(i), v) }) >= k

\* C12: for method 'median', finalDistance is the middle element of the
\* distances in ascending order when their count is odd and the mean of
\* the two middle elements when it is even; 0.3, 0.5, 0.7, 0.9 in any
\* order give 0.6.
C12_MedianOfSortedCopy ==
    IsAggregatorCall /\ Len(args.refDescriptors) > 0 /\ args.method = "median" =>
        LET n == Len(args.refDescriptors)
            f == outcome.value.finalDistance
        IN  /\ n % 2 = 1 => IsKthSmallest(f, (n + 1) \div 2)
            /\ n % 2 = 0 =>
                  \E i, j \in ArgPositions :
                      /\ IsKthSmallest(ArgDistance(i), n \div 2)
                      /\ IsKthSmallest(ArgDistance(j), n \div 2 + 1)
                      /\ RMul(f, Num(2)) = RAdd(ArgDistance(i), ArgDistance(j))
            /\ { ArgDistance(i) : i \in ArgPositions }
                  = {Frac(3, 10), Frac(5, 10), Frac(7, 10), Frac(9, 10)} /\ n = 4
                  => f = Frac(6, 10)

\* the distances 0.9, 0.3, 0.7, 0.5, whose two middle positions hold 0.3 and 0.7
C12_Witness ==
    /\ IsAggregatorCall
    /\ args.method = "median"
    /\ args.compareDescriptor = <<Num(0)>>
    /\ args.refDescriptors = << <<Frac(9, 10)>>, <<Frac(3, 10)>>, <<Frac(7, 10)>>, <<Frac(5, 10)>> >>
    /\ outcome.value.finalDistance = Frac(6, 10)

ScoreOf(v) == [similarity |-> v.similarity, confidence |-> v.confidence, isMatch |-> v.isMatch]

\* C13: with exactly one reference descriptor, 'best', 'average' and
\* 'median' all give the single pairwise distance as finalDistance, and the
\* same similarity, confidence and isMatch.
C13_SingleReferenceMethodsAgree ==
    IsAggregatorCall /\ Len(args.refDescriptors) = 1 /\ args.method \in KnownMethods =>
        /\ outcome.value.finalDistance = ArgDistance(1)
        /\ \A m \in KnownMethods :
              LET other == computeMultiReferenceSimilarity(args.refDescriptors,
                               args.compareDescriptor, args.anySunglasses, m).value
              IN  /\ other.finalDistance = outcome.value.finalDistance
                  /\ ScoreOf(other) = ScoreOf(outcome.value)

C13_Witness ==
    /\ IsAggregatorCall
    /\ args.method = "best"
    /\ args.compareDescriptor = <<Frac(5, 10)>>
    /\ args.refDescriptors = << <<Frac(9, 10)>> >>
    /\ outcome.value.finalDistance = Frac(4, 10)
    /\ outcome.value.confidence = "High"

\* C14: the similarity, confidence and isMatch of the result are those of
\* computeSimilarity(finalDistance, anySunglasses) for the returned
\* finalDistance.
C14_ScoreDelegatedToScorer ==
    IsAggregatorCall /\ Len(args.refDescriptors) > 0 =>
        ScoreOf(outcome.value) =
            computeSimilarity(outcome.value.finalDistance, args.anySunglasses)

\* the mean 0.45 of 0.5 and 0.4: Very High with the flag, High without it
C14_Witness ==
    /\ IsAggregatorCall
    /\ args.method = "average"
    /\ args.anySunglasses
    /\ args.compareDescriptor = <<Frac(5, 10)>>
    /\ args.refDescriptors = << <<Num(0)>>, <<Frac(9, 10)>> >>
    /\ outcome.value.finalDistance = Frac(45, 100)
    /\ outcome.value.confidence = "Very High"
    /\ outcome.value.similarity = Frac(95625, 1000)

----------------------------------------------------------------------------
(* Properties of the ranking step.                                         *)

IsBatchCall == fn = "computeAllSimilarities"
IsRun == fn = "performComparison" /\ ~outcome.threw /\ outcome.value.stored
IsRanking == IsBatchCall \/ IsRun

\* the ranked records of the call
Ranked == IF IsBatchCall THEN outcome.value ELSE outcome.value.comparisonResults

\* the face a record names, and the place of a face in the ranked output
FaceAt(imgIndex, faceIndex) == args.comparisons[imgIndex + 1].faces[faceIndex + 1]
FaceOf(r) == FaceAt(r.imageIndex, r.faceIndex)
FacePlaces ==
    { p \in (0 .. MaxImages) \X (0 .. MaxFaces) :
        /\ p[1] < Len(args.comparisons)
        /\ p[2] < Len(args.comparisons[p[1] + 1].faces) }
RankOf(p) == CHOOSE k \in 1 .. Len(Ranked) :
                Ranked[k].imageIndex = p[1] /\ Ranked[k].faceIndex = p[2]

\* C15: the ranked records are in descending order of similarity.
C15_RankedDescending ==
    IsRanking =>
        \A k \in 1 .. Len(Ranked) - 1 :
            RLe(Ranked[k + 1].similarity, Ranked[k].similarity)

\* 0.55 supplied before 0.35: the second image's face comes out first
C15_Witness ==
    /\ IsBatchCall
    /\ args.refDescriptor = <<Num(0)>>
    /\ ~args.refHasSunglasses
    /\ Len(outcome.value) = 2
    /\ outcome.value[1].imageIndex = 1
    /\ outcome.value[1].similarity = Frac(95625, 1000)
    /\ outcome.value[2].imageIndex = 0
    /\ outcome.value[2].similarity = Frac(775, 10)

\* C16: records of equal similarity keep the order in which their faces
\* were encountered: smaller image index first, then smaller face index.
C16_TiesKeepEncounterOrder ==
    IsRanking =>
        \A k, l \in 1 .. Len(Ranked) :
            k < l /\ Ranked[k].similarity = Ranked[l].similarity =>
                \/ Ranked[k].imageIndex < Ranked[l].imageIndex
                \/ /\ Ranked[k].imageIndex = Ranked[l].imageIndex
                   /\ Ranked[k].faceIndex < Ranked[l].faceIndex

\* two different faces, both 0.1 from the reference, behind each other in
\* one image, and a lower-ranked face supplied before them
C16_Witness ==
    /\ IsRun
    /\ Len(Ranked) = 3
    /\ Ranked[1].similarity = Ranked[2].similarity
    /\ Ranked[1].compAge # Ranked[2].compAge
    /\ Ranked[1].imageIndex = 1 /\ Ranked[1].faceIndex = 0
    /\ Ranked[2].imageIndex = 1 /\ Ranked[2].faceIndex = 1
    /\ Ranked[3].imageIndex = 0
    /\ RLt(Ranked[3].similarity, Ranked[2].similarity)

\* C17: the ranked output has exactly one record per face of the
\* comparison set, and each record's fileName, imageIndex and faceIndex are
\* those of the image and face its result was computed from.
C17_OneRecordPerFace ==
    IsRanking =>
        /\ Len(Ranked) = Cardinality(FacePlaces)
        /\ { <<Ranked[k].imageIndex, Ranked[k].faceIndex>> : k \in 1 .. Len(Ranked) }
              = FacePlaces
        /\ \A k \in 1 .. Len(Ranked) :
              LET r == Ranked[k]
              IN  /\ r.fileName = args.comparisons[r.imageIndex + 1].file.name
                  /\ r.hasSunglasses = FaceOf(r).hasSunglasses
                  /\ IsBatchCall =>
                        r.distance = RAbs(RSub(args.refDescriptor[1], FaceOf(r).descriptor[1]))
                  /\ IsRun =>
                        LET refs == selectedReferenceFaces(args.referencePhotos)
                        IN  /\ Len(r.distances) = Len(refs)
                            /\ \A i \in 1 .. Len(refs) :
                                  r.distances[i] =
                                      RAbs(RSub(refs[i].descriptor[1], FaceOf(r).descriptor[1]))

\* an image without a face, then an image of three faces
C17_Witness ==
    /\ IsBatchCall
    /\ Len(args.comparisons) = 2
    /\ Len(args.comparisons[1].faces) = 0
    /\ Len(args.comparisons[2].faces) = 3
    /\ Len(outcome.value) = 3
    /\ \A k \in 1 .. 3 : outcome.value[k].imageIndex = 1
    /\ outcome.value[1].faceIndex = 2

\* the reference-side age: the age of the selected reference face when
\* there is exactly one
OnlyReferenceAge ==
    LET refs == selectedReferenceFaces(args.referencePhotos)
    IN  IF Len(refs) = 1 THEN numberOrNull(refs[1].age) ELSE JSNull

\* C18: every record carries, unchanged, the comparison face's
\* hasSunglasses, the reference-side sunglasses flag, the estimated ages of
\* the reference side and of the comparison side, and the quality score
\* when the face has one.
C18_MetadataCarried ==
    IsRanking =>
        \A k \in 1 .. Len(Ranked) :
            LET r == Ranked[k]
                f == FaceOf(r)
            IN  /\ r.hasSunglasses = f.hasSunglasses
                /\ IsBatchCall => r.referenceSunglasses = args.refHasSunglasses
                /\ IsRun => r.referenceSunglasses
                              = someSunglasses(selectedReferenceFaces(args.referencePhotos))
                /\ r.compAge = numberOrNull(f.age)
                /\ "refAge" \in DOMAIN r
                /\ IsRun /\ Len(selectedReferenceFaces(args.referencePhotos)) = 1
                      => r.refAge = OnlyReferenceAge
                /\ f.quality.type = "number" =>
                      "quality" \in DOMAIN r /\ r.quality = f.quality

----------------------------------------------------------------------------
(* Properties of the core as a whole.                                      *)

C22_OnlyEmptyReferencesThrow ==
    /\ IsScorerCall =>
          /\ ~outcome.threw
          /\ DOMAIN outcome.value = {"similarity", "confidence", "isMatch"}
          /\ outcome.value.confidence \in {"Very High", "High", "Good", "Low", "Very Low"}
          /\ outcome.value.isMatch \in BOOLEAN
    /\ IsAggregatorCall =>
          /\ outcome.threw <=> Len(args.refDescriptors) = 0
          /\ ~outcome.threw =>
                /\ outcome.value.referenceCount = Len(args.refDescriptors)
                /\ outcome.value.confidence
                      \in {"Very High", "High", "Good", "Low", "Very Low"}

\* a method string the switch does not know, on two references
C22_Witness ==
    /\ IsAggregatorCall
    /\ args.method = "BEST"
    /\ Len(args.refDescriptors) = 2
    /\ ~outcome.threw
    /\ outcome.value.referenceCount = 2

\* the reference-side flag of the call
ReferenceFlag ==
    IF IsBatchCall THEN args.refHasSunglasses
    ELSE \E p \in 1 .. Len(args.referencePhotos) :
            \E i \in 1 .. Len(args.referencePhotos[p].faces) :
                /\ args.referencePhotos[p].faces[i].selected
                /\ args.referencePhotos[p].faces[i].hasSunglasses

\* C23: in the ranking step a record is scored with the threshold
\* adjustment exactly when the reference side or the comparison face is
\* flagged as wearing sunglasses; in multi-reference mode the reference
\* side is flagged iff at least one selected reference face is.
C23_FlagIsEitherFace ==
    IsRanking =>
        \A k \in 1 .. Len(Ranked) :
            LET r     == Ranked[k]
                score == computeSimilarity(r.distance,
                                           ReferenceFlag \/ FaceOf(r).hasSunglasses)
            IN  /\ r.referenceSunglasses = ReferenceFlag
                /\ r.similarity = score.similarity
                /\ r.confidence = score.confidence
                /\ r.isMatch = score.isMatch

\* an unflagged reference at 0.45 and the flagged face at 1.5: the distance
\* 1.05 scores 25 with the adjustment (15 without)
C23_Witness ==
    /\ IsBatchCall
    /\ args.refDescriptor = <<Frac(45, 100)>>
    /\ ~args.refHasSunglasses
    /\ Len(outcome.value) = 1
    /\ outcome.value[1].hasSunglasses
    /\ outcome.value[1].distance = Frac(105, 100)
    /\ outcome.value[1].similarity = Num(25)
    /\ computeSimilarity(Frac(105, 100), FALSE).similarity = Num(15)


----------------------------------------------------------------------------
(* Properties of the page: what the handlers of main.js leave in the three *)
(* lists when they interleave.                                             *)

IsPageRun == fn = "performComparison"
RunStored == IsPageRun /\ ~outcome.threw /\ outcome.value.stored

\* record r is built from the face now at comparisons[r.imageIndex]
RefersToItsFace(r) ==
    /\ r.imageIndex < Len(comparisons)
    /\ comparisons[r.imageIndex + 1].file.name = r.fileName
    /\ r.faceIndex < Len(comparisons[r.imageIndex + 1].faces)

\* C24: a run that reaches the scoring step leaves in comparisonResults
\* exactly the records built in that run: one for each face now in
\* comparisons, scored against the reference faces now selected, sorted by
\* descending similarity, and none of an earlier run.
C24_RunReplacesResults ==
    RunStored =>
        LET at == forEachFace(comparisons, 0)
            n  == Len(comparisonResults)
        IN  /\ comparisonResults = outcome.value.comparisonResults
            /\ n = Len(at)
            /\ \A k \in 1 .. Len(at) :
                  \E i \in 1 .. n :
                      /\ comparisonResults[i].imageIndex = at[k][1]
                      /\ comparisonResults[i].faceIndex = at[k][2]
            /\ \A i \in 1 .. n :
                  /\ RefersToItsFace(comparisonResults[i])
                  /\ comparisonResults[i].referenceCount
                        = Len(selectedReferenceFaces(referencePhotos))
            /\ \A i, j \in 1 .. n :
                  i < j => RLe(comparisonResults[j].similarity,
                               comparisonResults[i].similarity)

\* a run over b.jpg after a run over a.jpg
C24_Witness ==
    /\ RunStored
    /\ Len(args.previous) = 1
    /\ args.previous[1].fileName = "a.jpg"
    /\ Len(comparisonResults) = 2
    /\ \A i \in 1 .. 2 : comparisonResults[i].fileName = "b.jpg"

\* C27: the reference photos stored are never more than
\* CONFIG.ui.maxReferencePhotos, whatever calls of handleReferencePhotos
\* are under way.
C27_AtMostMaxReferencePhotos == Len(referencePhotos) <= maxReferencePhotos

\* the photos of before, without the one at position p (from 0), re-indexed
WithoutPhoto(before, p) ==
    LET rest == RemoveAt(before, p + 1)
    IN  [i \in 1 .. Len(rest) |-> [rest[i] EXCEPT !.index = i - 1]]

\* C28: the remove button shown on a stored reference photo removes that
\* photo and leaves every other stored photo in place.
C28_RemovesThatPhoto ==
    fn = "removeReferencePhoto" /\ args.clicked >= 0 =>
        referencePhotos = WithoutPhoto(args.before, args.clicked)

\* C29: when an export reads the stored results, every record refers to
\* the face it was computed from: comparisons[imageIndex] is there, has
\* the record's file name and a face at faceIndex.
C29_ResultsReferToComparisons ==
    fn \in {"exportMatchSheet", "exportMatchingPhotosToZip"} =>
        \A i \in 1 .. Len(comparisonResults) :
            RefersToItsFace(comparisonResults[i])

\* C30: no run throws 'No reference descriptors provided': a run with no
\* selected reference face ends before the scoring and stores nothing.
C30_RunNeverScoresWithoutReference ==
    IsPageRun =>
        /\ ~outcome.threw
        /\ selectedReferenceFaces(referencePhotos) = <<>> => ~outcome.value.stored

\* a run with a stored photo none of whose faces is selected, and a face
\* to compare
C30_Witness ==
    /\ IsPageRun
    /\ Len(referencePhotos) > 0
    /\ selectedReferenceFaces(referencePhotos) = <<>>
    /\ Len(forEachFace(comparisons, 0)) > 0
    /\ ~outcome.threw
    /\ outcome.value.alert = "Please select at least one reference face"

=============================================================================
